---- MODULE Spec2Model ----
(***************************************************************************)
(* Model of src/app.py: a Flask application exposing users, products and   *)
(* orders, stored in a MySQL database through SQLAlchemy.  The state is    *)
(* the content of the four tables, the three AUTO_INCREMENT counters and   *)
(* the last HTTP request with its response. Every route handler is one action.  The        *)
(* constraints the table definitions declare (primary key, foreign key,    *)
(* NOT NULL, UNIQUE) are enforced when the session is flushed: a violation *)
(* raises IntegrityError, which no handler catches, so the transaction is  *)
(* rolled back and Flask answers 500.                                      *)
(***************************************************************************)
EXTENDS Integers, FiniteSets, Sequences, Bags, TLC

VARIABLES users, products, orders, order_product,
          nextUserId, nextProductId, nextOrderId, req, resp

vars == <<users, products, orders, order_product,
          nextUserId, nextProductId, nextOrderId, req, resp>>

tables == <<users, products, orders, order_product>>

counters == <<nextUserId, nextProductId, nextOrderId>>

(* ---------------------------- bounds ---------------------------------- *)
\* number of rows a run may insert into user, product and order together
MaxRows == 4

(* ------------------------ column lengths ------------------------------ *)
NameLen == 50
AddressLen == 200
EmailLen == 100
ProductNameLen == 100

(* ------------------------ request inputs ------------------------------ *)
\* A string is <<text, length>>; a float is [isnum, val]; a date is
\* [isdate, val].  A JSON body is a record; a missing key is a missing field.
Str(t, n) == <<t, n>>
StrLen(s) == s[2]
Num(n) == [isnum |-> TRUE, val |-> n]
NotNum == [isnum |-> FALSE, val |-> 0]
Day(d) == [isdate |-> TRUE, val |-> d]
NotDay == [isdate |-> FALSE, val |-> 0]

\* path parameters: every id handed out so far and one never handed out
UserIds == 1..nextUserId
ProductIds == 1..nextProductId
OrderIds == 1..nextOrderId

Emails == {Str("e1", 5), Str("e2", 100)}

UserBodies ==
    {[name |-> Str("ann", 50), address |-> Str("home", 200), email |-> e] : e \in Emails}
    \cup {[name |-> Str("ann", 50), address |-> Str("home", 200)],
          [name |-> Str("long", 51), address |-> Str("home", 200), email |-> Str("e1", 5)],
          [name |-> Str("ann", 50), address |-> Str("long", 201), email |-> Str("e1", 5)],
          [name |-> Str("ann", 50), address |-> Str("home", 200), email |-> Str("long", 101)]}

ProductBodies ==
    {[product_name |-> Str("pen", 100), price |-> Num(p)] : p \in {5, 10}}
    \cup {[product_name |-> Str("pen", 100)],
          [product_name |-> Str("pen", 100), price |-> NotNum],
          [product_name |-> Str("long", 101), price |-> Num(5)]}

OrderBodies ==
    {[user_id |-> u, order_date |-> Day(1)] : u \in UserIds}
    \cup {[order_date |-> Day(1)],
          [user_id |-> 1],
          [user_id |-> 1, order_date |-> NotDay]}

(* ----------------------- schema validation ---------------------------- *)
\* marshmallow-sqlalchemy: a NOT NULL column without default is a required
\* field; a String(n) column gets a Length(max=n) validator.  The result is
\* the set of offending fields (e.messages); the load succeeds when empty.
MissingFields(body, required) == required \ DOMAIN body

TooLong(body, f, n) == IF f \in DOMAIN body /\ StrLen(body[f]) > n THEN {f} ELSE {}

user_schema_load(body) ==
    MissingFields(body, {"name", "address", "email"})
        \cup TooLong(body, "name", NameLen)
        \cup TooLong(body, "address", AddressLen)
        \cup TooLong(body, "email", EmailLen)

product_schema_load(body) ==
    MissingFields(body, {"product_name", "price"})
        \cup TooLong(body, "product_name", ProductNameLen)
        \cup (IF "price" \in DOMAIN body /\ ~body.price.isnum THEN {"price"} ELSE {})

order_schema_load(body) ==
    MissingFields(body, {"user_id", "order_date"})
        \cup (IF "order_date" \in DOMAIN body /\ ~body.order_date.isdate
              THEN {"order_date"} ELSE {})

(* ------------------------ requests and responses --------------------- *)
\* A request is the route it reaches, the integers of its path and its JSON
\* body.
NoBody == [none |-> TRUE]

Request(op, args, body) == [op |-> op, args |-> args, body |-> body]

\* A response is a status, a message (key, text, what the text interpolates)
\* and the rows a schema dumped.
NoMsg == <<"", "", {}>>

Dumped(status, rows) == [status |-> status, msg |-> NoMsg, rows |-> rows]

Message(status, key, text, arg) ==
    [status |-> status, msg |-> <<key, text, arg>>, rows |-> {}]

\* jsonify(e.messages), 400
Invalid(fields) == Message(400, "errors", "", fields)

\* an exception no handler catches
ServerError == Message(500, "", "Internal Server Error", {})

(* --------------------------- session.get ------------------------------ *)
Rows(table, id) == {r \in table : r.id = id}
Exists(table, id) == Rows(table, id) # {}
Get(table, id) == CHOOSE r \in table : r.id = id

\* schema.jsonify(session.get(Model, id)): the fields of the row; dumping
\* None gives an object without fields.
Dump(table, id) == Rows(table, id)

(* ------------------------ table constraints --------------------------- *)
\* the UNIQUE index on user.email left out
EmailUnchecked(email, id) == TRUE

\* user.email is UNIQUE
EmailUnique(email, id) == \A u \in users : u.id # id => u.email # email

\* the foreign key on order.user_id left out
UserFkUnchecked(user_id) == TRUE

\* order.user_id REFERENCES user.id
UserFkOk(user_id) == Exists(users, user_id)

\* order_product (order_id, product_id) is the primary key
AssocPkOk(o, p) == ~BagIn(<<o, p>>, order_product)

\* the WHERE clause left out
AllOrders(user_id) == orders

\* the rows of order whose user_id is the given user
OrdersOf(user_id) == {o \in orders : o.user_id = user_id}

\* the membership test always false
InOrderNever(o, p) == FALSE

\* `product in order.product`
InOrder(o, p) == BagIn(<<o, p>>, order_product)

\* the rows of the secondary table kept
AssocKept(p) == order_product

\* session.delete(product): the rows of the secondary table that refer to
\* the product are deleted with it
AssocWithoutProduct(p) ==
    [pair \in {q \in DOMAIN order_product : q[2] # p} |-> order_product[pair]]

\* the AUTO_INCREMENT keys can still hand out an id
CanInsert == (nextUserId - 1) + (nextProductId - 1) + (nextOrderId - 1) < MaxRows

(* ------------------------------ Init ---------------------------------- *)
Init ==
    /\ users = {}
    /\ products = {}
    /\ orders = {}
    /\ order_product = EmptyBag
    /\ nextUserId = 1
    /\ nextProductId = 1
    /\ nextOrderId = 1
    /\ req = Request("", <<>>, NoBody)
    /\ resp = Dumped(0, {})

(* --------------------------- user routes ------------------------------ *)
get_users ==
    /\ req' = Request("get_users", <<>>, NoBody)
    /\ resp' = Dumped(200, users)
    /\ UNCHANGED <<tables, counters>>

get_user(id) ==
    /\ req' = Request("get_user", <<id>>, NoBody)
    /\ resp' = Dumped(200, Dump(users, id))
    /\ UNCHANGED <<tables, counters>>

\* name and address exchanged
NewUserSwapped(id, body) ==
    [id |-> id, name |-> body.address, email |-> body.email, address |-> body.name]

NewUser(id, body) ==
    [id |-> id, name |-> body.name, email |-> body.email, address |-> body.address]

create_user(body) ==
    /\ req' = Request("create_user", <<>>, body)
    /\ IF user_schema_load(body) # {}
       THEN /\ resp' = Invalid(user_schema_load(body))
            /\ UNCHANGED <<tables, counters>>
       ELSE IF ~EmailUnique(body.email, nextUserId)
       THEN /\ resp' = ServerError
            /\ UNCHANGED <<tables, counters>>
       ELSE /\ CanInsert
            /\ users' = users \cup {NewUser(nextUserId, body)}
            /\ nextUserId' = nextUserId + 1
            /\ resp' = Dumped(201, {NewUser(nextUserId, body)})
            /\ UNCHANGED <<products, orders, order_product,
                           nextProductId, nextOrderId>>

UpdatedUser(user, body) ==
    [user EXCEPT !.name = body.name, !.email = body.email]

update_user(id, body) ==
    /\ req' = Request("update_user", <<id>>, body)
    /\ IF ~Exists(users, id)
       THEN /\ resp' = Message(404, "message", "Invalid user id", {})
            /\ UNCHANGED <<tables, counters>>
       ELSE IF user_schema_load(body) # {}
       THEN /\ resp' = Invalid(user_schema_load(body))
            /\ UNCHANGED <<tables, counters>>
       ELSE IF ~EmailUnique(body.email, id)
       THEN /\ resp' = ServerError
            /\ UNCHANGED <<tables, counters>>
       ELSE /\ users' = (users \ Rows(users, id)) \cup {UpdatedUser(Get(users, id), body)}
            /\ resp' = Dumped(200, {UpdatedUser(Get(users, id), body)})
            /\ UNCHANGED <<products, orders, order_product, counters>>

\* session.delete(user) first sets user_id of the user's orders to NULL;
\* order.user_id is NOT NULL, so the flush fails when the user has orders.
delete_user(id) ==
    /\ req' = Request("delete_user", <<id>>, NoBody)
    /\ IF ~Exists(users, id)
       THEN /\ resp' = Message(404, "error", "User not found", {})
            /\ UNCHANGED <<tables, counters>>
       ELSE IF OrdersOf(id) # {}
       THEN /\ resp' = ServerError
            /\ UNCHANGED <<tables, counters>>
       ELSE /\ users' = users \ Rows(users, id)
            /\ resp' = Message(200, "message", "successfully deleted user", {id})
            /\ UNCHANGED <<products, orders, order_product, counters>>

(* -------------------------- product routes ---------------------------- *)
get_products ==
    /\ req' = Request("get_products", <<>>, NoBody)
    /\ resp' = Dumped(200, products)
    /\ UNCHANGED <<tables, counters>>

get_product(id) ==
    /\ req' = Request("get_product", <<id>>, NoBody)
    /\ resp' = Dumped(200, Dump(products, id))
    /\ UNCHANGED <<tables, counters>>

NewProduct(id, body) ==
    [id |-> id, product_name |-> body.product_name, price |-> body.price]

create_product(body) ==
    /\ req' = Request("create_product", <<>>, body)
    /\ IF product_schema_load(body) # {}
       THEN /\ resp' = Invalid(product_schema_load(body))
            /\ UNCHANGED <<tables, counters>>
       ELSE /\ CanInsert
            /\ products' = products \cup {NewProduct(nextProductId, body)}
            /\ nextProductId' = nextProductId + 1
            /\ resp' = Dumped(201, {NewProduct(nextProductId, body)})
            /\ UNCHANGED <<users, orders, order_product, nextUserId, nextOrderId>>

UpdatedProduct(product, body) ==
    [product EXCEPT !.product_name = body.product_name, !.price = body.price]

update_product(id, body) ==
    /\ req' = Request("update_product", <<id>>, body)
    /\ IF ~Exists(products, id)
       THEN /\ resp' = Message(404, "message", "Invalid product id", {})
            /\ UNCHANGED <<tables, counters>>
       ELSE IF product_schema_load(body) # {}
       THEN /\ resp' = Invalid(product_schema_load(body))
            /\ UNCHANGED <<tables, counters>>
       ELSE /\ products' = (products \ Rows(products, id))
                               \cup {UpdatedProduct(Get(products, id), body)}
            /\ resp' = Dumped(200, {UpdatedProduct(Get(products, id), body)})
            /\ UNCHANGED <<users, orders, order_product, counters>>

\* session.delete(product); session.commit()
DeleteProduct(id) ==
    /\ products' = products \ Rows(products, id)
    /\ order_product' = AssocWithoutProduct(id)

delete_product(id) ==
    /\ req' = Request("delete_product", <<id>>, NoBody)
    /\ IF ~Exists(products, id)
       THEN /\ resp' = Message(404, "error", "Product not found", {})
            /\ UNCHANGED <<tables, counters>>
       ELSE /\ DeleteProduct(id)
            /\ resp' = Message(200, "message", "successfully deleted product", {id})
            /\ UNCHANGED <<users, orders, counters>>

(* --------------------------- order routes ----------------------------- *)
NewOrder(id, body) ==
    [id |-> id, user_id |-> body.user_id, order_date |-> body.order_date]

new_order(body) ==
    /\ req' = Request("new_order", <<>>, body)
    /\ IF order_schema_load(body) # {}
       THEN /\ resp' = Invalid(order_schema_load(body))
            /\ UNCHANGED <<tables, counters>>
       ELSE IF ~UserFkOk(body.user_id)
       THEN /\ resp' = ServerError
            /\ UNCHANGED <<tables, counters>>
       ELSE /\ CanInsert
            /\ orders' = orders \cup {NewOrder(nextOrderId, body)}
            /\ nextOrderId' = nextOrderId + 1
            /\ resp' = Dumped(201, {NewOrder(nextOrderId, body)})
            /\ UNCHANGED <<users, products, order_product, nextUserId, nextProductId>>

add_product(order_id, product_id) ==
    /\ req' = Request("add_product", <<order_id, product_id>>, NoBody)
    /\ IF ~Exists(orders, order_id) \/ ~Exists(products, product_id)
       THEN /\ resp' = Message(404, "error", "Order or Product not found", {})
            /\ UNCHANGED <<tables, counters>>
       ELSE IF InOrder(order_id, product_id)
       THEN /\ resp' = Message(400, "message", "Product already in order", {})
            /\ UNCHANGED <<tables, counters>>
       ELSE IF ~AssocPkOk(order_id, product_id)
       THEN /\ resp' = ServerError
            /\ UNCHANGED <<tables, counters>>
       ELSE /\ order_product' = order_product (+) SetToBag({<<order_id, product_id>>})
            /\ resp' = Message(200, "message", "Successfully added to order!",
                               {Get(products, product_id).product_name})
            /\ UNCHANGED <<users, products, orders, counters>>

\* `order.product` on order = None raises AttributeError, which nothing
\* catches; `None not in order.product` is true.
remove_product(order_id, product_id) ==
    /\ req' = Request("remove_product", <<order_id, product_id>>, NoBody)
    /\ IF ~Exists(orders, order_id)
       THEN /\ resp' = ServerError
            /\ UNCHANGED <<tables, counters>>
       ELSE IF ~Exists(products, product_id) \/ ~InOrder(order_id, product_id)
       THEN /\ resp' = Message(404, "error", "Product not found in order", {})
            /\ UNCHANGED <<tables, counters>>
       ELSE /\ DeleteProduct(product_id)
            /\ resp' = Message(200, "message", "successfully deleted", {product_id})
            /\ UNCHANGED <<users, orders, counters>>

get_user_orders(user_id) ==
    /\ req' = Request("get_user_orders", <<user_id>>, NoBody)
    /\ resp' = Dumped(200, OrdersOf(user_id))
    /\ UNCHANGED <<tables, counters>>

\* order.product: the products the secondary table links to the order
ProductsOf(order_id) == {p \in products : InOrder(order_id, p.id)}

get_order_products(order_id) ==
    /\ req' = Request("get_order_products", <<order_id>>, NoBody)
    /\ IF ~Exists(orders, order_id)
       THEN /\ resp' = Message(404, "error", "Order not found", {})
            /\ UNCHANGED <<tables, counters>>
       ELSE /\ resp' = Dumped(200, ProductsOf(order_id))
            /\ UNCHANGED <<tables, counters>>

(* ------------------------------ Next ---------------------------------- *)
Next ==
    \/ get_users
    \/ \E id \in UserIds : get_user(id)
    \/ \E body \in UserBodies : create_user(body)
    \/ \E id \in UserIds, body \in UserBodies : update_user(id, body)
    \/ \E id \in UserIds : delete_user(id)
    \/ get_products
    \/ \E id \in ProductIds : get_product(id)
    \/ \E body \in ProductBodies : create_product(body)
    \/ \E id \in ProductIds, body \in ProductBodies : update_product(id, body)
    \/ \E id \in ProductIds : delete_product(id)
    \/ \E body \in OrderBodies : new_order(body)
    \/ \E o \in OrderIds, p \in ProductIds : add_product(o, p)
    \/ \E o \in OrderIds, p \in ProductIds : remove_product(o, p)
    \/ \E u \in UserIds : get_user_orders(u)
    \/ \E o \in OrderIds : get_order_products(o)

Spec == Init /\ [][Next]_vars

(* ============================== claims ================================ *)
Copies(o, p) == CopiesIn(<<o, p>>, order_product)
Pairs == DOMAIN order_product

\* C1: every stored order has a user_id that is the id of an existing user.
C1_OrderUserExists == \A o \in orders : \E u \in users : u.id = o.user_id

\* C1 witness: an order is stored and deleting its user has been refused.
C1_Witness ==
    /\ req.op = "delete_user"
    /\ resp.status = 500
    /\ \E o \in orders : o.user_id = req.args[1]

\* C2: every (order_id, product_id) pair of the association occurs once and
\* refers to an existing order and an existing product.
C2_AssocWellFormed ==
    \A pair \in Pairs :
        /\ order_product[pair] = 1
        /\ \E o \in orders : o.id = pair[1]
        /\ \E p \in products : p.id = pair[2]

\* C2 witness: a product has been deleted while associations remain.
C2_Witness ==
    /\ req.op = "delete_product"
    /\ resp.status = 200
    /\ Pairs # {}

\* C3: add_product(o, p) on an existing order and product answers 400 and
\* changes nothing when the pair is present, and otherwise answers 200 and
\* inserts exactly the pair (o, p), which is then present once.
C3_Step ==
    (/\ req'.op = "add_product"
     /\ \E o \in orders : o.id = req'.args[1]
     /\ \E p \in products : p.id = req'.args[2])
    => IF Copies(req'.args[1], req'.args[2]) > 0
       THEN /\ resp'.status = 400
            /\ UNCHANGED <<tables, counters>>
       ELSE /\ resp'.status = 200
            /\ DOMAIN order_product' = Pairs \cup {<<req'.args[1], req'.args[2]>>}
            /\ order_product'[<<req'.args[1], req'.args[2]>>] = 1
            /\ \A pair \in Pairs : order_product'[pair] = order_product[pair]
            /\ UNCHANGED <<users, products, orders, counters>>

C3_AddProduct == [][C3_Step]_vars

\* C3 witness: the second add_product(o, p) has answered 400 and the pair is
\* present once.
C3_Witness ==
    /\ req.op = "add_product"
    /\ resp.status = 400
    /\ Copies(req.args[1], req.args[2]) = 1

\* C4 (as claimed): remove_product(o, p) on an associated pair removes only
\* that pair; products, users, orders and every other pair are unchanged.
C4_Step ==
    (/\ req'.op = "remove_product"
     /\ Copies(req'.args[1], req'.args[2]) > 0)
    => /\ DOMAIN order_product' = Pairs \ {<<req'.args[1], req'.args[2]>>}
       /\ \A pair \in DOMAIN order_product' : order_product'[pair] = order_product[pair]
       /\ UNCHANGED <<users, products, orders>>

C4_RemoveOnlyPair == [][C4_Step]_vars

\* C5 (as claimed): remove_product on a pair that is not associated, the
\* order or the product existing or not, answers 404 and changes nothing.
C5_Step ==
    (/\ req'.op = "remove_product"
     /\ Copies(req'.args[1], req'.args[2]) = 0)
    => /\ resp'.status = 404
       /\ UNCHANGED <<tables, counters>>

C5_RemoveNotFound == [][C5_Step]_vars

\* C6 (as claimed): new_order with a well-formed body whose user_id is no
\* existing user answers 404 and creates no order.
C6_Step ==
    (/\ req'.op = "new_order"
     /\ order_schema_load(req'.body) = {}
     /\ ~\E u \in users : u.id = req'.body.user_id)
    => /\ resp'.status = 404
       /\ orders' = orders

C6_NewOrderNotFound == [][C6_Step]_vars

\* C7 (as claimed): get_user and get_product on an id that identifies no
\* row answer 404.
C7_GetNotFound ==
    /\ (req.op = "get_user" /\ ~\E u \in users : u.id = req.args[1])
           => resp.status = 404
    /\ (req.op = "get_product" /\ ~\E p \in products : p.id = req.args[1])
           => resp.status = 404

\* C8: no two users have the same email; create_user with the email of an
\* existing user, and update_user to the email of another user, fail and
\* change nothing.
C8_EmailsDistinct == \A u, v \in users : u.email = v.email => u = v

C8_Step ==
    /\ (/\ req'.op = "create_user"
        /\ "email" \in DOMAIN req'.body
        /\ \E u \in users : u.email = req'.body.email)
       => (resp'.status >= 400 /\ UNCHANGED <<tables, counters>>)
    /\ (/\ req'.op = "update_user"
        /\ "email" \in DOMAIN req'.body
        /\ \E u \in users : u.id # req'.args[1] /\ u.email = req'.body.email)
       => (resp'.status >= 400 /\ UNCHANGED <<tables, counters>>)

C8_UniqueEmail == []C8_EmailsDistinct /\ [][C8_Step]_vars

\* C8 witness: create_user with the email of an existing user has failed.
C8_Witness ==
    /\ req.op = "create_user"
    /\ user_schema_load(req.body) = {}
    /\ resp.status = 500
    /\ \E u \in users : u.email = req.body.email

\* C9: get_user_orders(user_id) answers exactly the stored orders whose
\* user_id is the given one, and changes no stored data.
C9_Answer ==
    req.op = "get_user_orders"
    => /\ resp.status = 200
       /\ resp.rows = {o \in orders : o.user_id = req.args[1]}

C9_Step == req'.op = "get_user_orders" => UNCHANGED <<tables, counters>>

C9_UserOrders == []C9_Answer /\ [][C9_Step]_vars

\* C9 witness: the orders of one user have been listed while another user
\* has orders too.
C9_Witness ==
    /\ req.op = "get_user_orders"
    /\ resp.rows # {}
    /\ resp.rows # orders

\* C10: a successful create_user answers a user with the fields of the
\* request and an id no other user has, stores that user, and get_user
\* answers the stored user until update_user or delete_user is called on
\* that id.
C10_Created ==
    (req'.op = "create_user" /\ resp'.status = 201)
    => \E new \in resp'.rows :
          /\ resp'.rows = {new}
          /\ new.name = req'.body.name
          /\ new.address = req'.body.address
          /\ new.email = req'.body.email
          /\ \A u \in users : u.id # new.id
          /\ {u \in users' : u.id = new.id} = {new}

C10_Kept ==
    \A u \in users :
        u \notin users' => /\ req'.op \in {"update_user", "delete_user"}
                           /\ req'.args = <<u.id>>

C10_Fetched ==
    (req.op = "get_user" /\ \E u \in users : u.id = req.args[1])
    => /\ resp.status = 200
       /\ resp.rows = {u \in users : u.id = req.args[1]}

C10_CreateThenGet == []C10_Fetched /\ [][C10_Created /\ C10_Kept]_vars

\* C10 witness: get_user has answered one of two stored users.
C10_Witness ==
    /\ req.op = "get_user"
    /\ resp.rows # {}
    /\ Cardinality(users) = 2

====
